---- MODULE Spec2Model ----
(***************************************************************************)
(* A model of etl.py: the Spark job that turns track-metadata records and  *)
(* session-event records into the songs, artist, users, time and songplays *)
(* tables.  A DataFrame is a bag (multiset) of rows; a written location is *)
(* a bag of entries, each a row together with the partition directory it   *)
(* was written under.                                                      *)
(***************************************************************************)
EXTENDS Integers, FiniteSets, Sequences, Bags, TLC

(***************************************************************************)
(* Bounds                                                                  *)
(***************************************************************************)
\* largest number of track records / session-event records in the input of
\* a single run (specification Spec)
MaxTracks == 2
MaxEvents == 3
\* largest number of records, track and session-event records together, in
\* the input of a run of the specification with repeated runs (SpecRuns)
RunRecords == 2
\* number of partitions the joined rows are spread over when they are numbered
NumShards == 2

(***************************************************************************)
(* Input records                                                           *)
(***************************************************************************)
\* a JSON null, or a field that is absent from the record
NULL == "<null>"

\* An epoch-milliseconds value x is held as <<x \div 10^6, x % 10^6>>: the
\* values of the log (about 1.5 * 10^12) exceed the 32-bit integers of TLC.
Limb == 1000 * 1000
\* 1541548800000
Ts1 == <<1541548, 800000>>
\* 1543622400123
Ts2 == <<1543622, 400123>>

Track(sid, title, aid, name, yr) ==
    [song_id |-> sid, title |-> title, artist_id |-> aid, artist_name |-> name,
     artist_location |-> "NY", artist_latitude |-> NULL, artist_longitude |-> NULL,
     year |-> yr, duration |-> "180.5"]

T1 == Track("S1", "Song A", "AR1", "Band X", 2000)
T2 == Track("S1", "Song A (Live)", "AR1", "Band X", 2000)
T3 == Track("S2", "Song B", "AR2", "Band X", 0)
T4 == Track("S3", "Song C", "AR3", NULL, 1999)
TrackRecords == {T1, T2, T3, T4}

Event(ts, uid, first, last, gender, level, sid, page, song, artist) ==
    [ts |-> ts, userId |-> uid, firstName |-> first, lastName |-> last,
     gender |-> gender, level |-> level, sessionId |-> sid, location |-> "NY",
     userAgent |-> "UA1", page |-> page, song |-> song, artist |-> artist]

E1 == Event(Ts1, "7", "Amy", "Lee", "F", "paid", 100, "NextSong", "Song A", "Band X")
E2 == Event(Ts1, "7", "Amy", "Lee", "F", "paid", 100, "NextSong", "Song B", "Band X")
E3 == Event(Ts2, "7", "Amy", "Lee", "F", "free", 101, "NextSong", "Song C", "Band Y")
E4 == Event(Ts2, "8", "Bob", "Ray", "M", "free", 102, "Home", NULL, "Band X")
E5 == Event(Ts1, "9", "Cy", "Orr", "M", "paid", 103, "NextSong", "Song D", NULL)
E6 == Event(Ts1, "8", "Bob", "Ray", "M", "free", 102, NULL, "Song A", "Band X")
EventRecords == {E1, E2, E3, E4, E5, E6}

\* offsets from UTC, in hours, of the time zone the job may run in
TimeZones == {-4, 0}

\* all bags of at most n records drawn from D
BagsOf(D, n) ==
    LET RECURSIVE Sum(_, _)
        Sum(f, S) == IF S = {} THEN 0
                     ELSE LET x == CHOOSE x \in S : TRUE IN f[x] + Sum(f, S \ {x})
    IN  { [r \in {x \in D : f[x] > 0} |-> f[r]] :
            f \in {g \in [D -> 0..n] : Sum(g, D) <= n} }

(***************************************************************************)
(* DataFrame operations (pyspark.sql), on bags of rows                     *)
(***************************************************************************)
\* Column equality: a comparison with a null is null, which no filter and no
\* join condition accepts.
ColEq(a, b) == a # NULL /\ b # NULL /\ a = b

\* df.where(cond), cond the value of the condition for every row
where(df, cond) == [r \in {x \in DOMAIN df : cond[x]} |-> df[r]]

\* df.select(cols), df.selectExpr(exprs), df.withColumn(...), cols the new row
\* for every row: row by row, every copy of a row is kept
select(df, cols) == BagOfAll(LAMBDA r : cols[r], df)

\* a faulty variant of dropDuplicates: nothing is dropped
dropDuplicates_none(df) == df

\* df.dropDuplicates(): one copy of every row
dropDuplicates(df) == [r \in DOMAIN df |-> 1]

\* a faulty variant of distinct: the rows are compared on the columns of the
\* songplays projection only, as if select() came before distinct()
distinct_selected(df) ==
    LET Sel(r) == <<r.timestamp, r.userId, r.level, r.sessionId, r.location,
                    r.userAgent, r.song_id, r.artist_id>>
        Rep(s) == CHOOSE r \in DOMAIN df : Sel(r) = s
    IN  [r \in {Rep(Sel(x)) : x \in DOMAIN df} |-> 1]

\* df.distinct(): one copy of every row, compared on all columns
distinct(df) == [r \in DOMAIN df |-> 1]

\* left.join(right, on, 'inner'), on the value of the condition for every
\* pair of rows: the concatenated rows of the pairs that satisfy it, each with
\* the product of the multiplicities
join(left, right, on) ==
    LET pairs == {p \in (DOMAIN left) \X (DOMAIN right) : on[p]}
    IN  BagOfAll(LAMBDA p : p[1] @@ p[2],
                 [p \in pairs |-> left[p[1]] * right[p[2]]])

\* the rows of df one by one: an item <<row, k>> for the k-th copy of row
Items(df) == UNION {{<<r, k>> : k \in 1..df[r]} : r \in DOMAIN df}

(***************************************************************************)
(* Time: datetime.fromtimestamp, TimestampType and the SQL date functions   *)
(***************************************************************************)
\* days since 1970-01-01 of the civil date y-m-d
DaysFromCivil(y, m, d) ==
    LET yy  == IF m <= 2 THEN y - 1 ELSE y
        era == yy \div 400
        yoe == yy - era * 400
        mp  == IF m > 2 THEN m - 3 ELSE m + 9
        doy == (153 * mp + 2) \div 5 + d - 1
        doe == yoe * 365 + yoe \div 4 - yoe \div 100 + doy
    IN  era * 146097 + doe - 719468

\* the civil date <<y, m, d>> of a day number
CivilFromDays(z) ==
    LET zz  == z + 719468
        era == zz \div 146097
        doe == zz - era * 146097
        yoe == (doe - doe \div 1460 + doe \div 36524 - doe \div 146096) \div 365
        doy == doe - (365 * yoe + yoe \div 4 - yoe \div 100)
        mp  == (5 * doy + 2) \div 153
        d   == doy - (153 * mp + 2) \div 5 + 1
        m   == IF mp < 10 THEN mp + 3 ELSE mp - 9
        y   == yoe + era * 400
    IN  <<IF m <= 2 THEN y + 1 ELSE y, m, d>>

\* a faulty variant of epoch_seconds: the value is divided by 1000 twice
epoch_seconds_twice(x) == [sec |-> x[1], usec |-> x[2]]

\* x / 1000 of the lambdas: epoch milliseconds to seconds, the fraction kept
\* (as microseconds)
epoch_seconds(x) ==
    [sec |-> x[1] * (Limb \div 1000) + x[2] \div 1000, usec |-> (x[2] % 1000) * 1000]

\* datetime.fromtimestamp(s): the naive wall-clock time of the instant in the
\* local time zone (tz hours from UTC)
fromtimestamp(s, tz) ==
    LET loc == s.sec + tz * 3600
        day == loc \div 86400
        rem == loc % 86400
        ymd == CivilFromDays(day)
    IN  [year |-> ymd[1], month |-> ymd[2], day |-> ymd[3], hour |-> rem \div 3600,
         minute |-> (rem % 3600) \div 60, second |-> rem % 60, microsecond |-> s.usec]

\* TimestampType: the naive datetime a udf returns is read as local time and
\* stored as an instant (seconds and microseconds since the epoch)
toInternal(dt, tz) ==
    [sec  |-> DaysFromCivil(dt.year, dt.month, dt.day) * 86400 + dt.hour * 3600
              + dt.minute * 60 + dt.second - tz * 3600,
     usec |-> dt.microsecond]

\* the udfs get_timestamp and get_datetime
get_timestamp(x, tz) == toInternal(fromtimestamp(epoch_seconds(x), tz), tz)
get_datetime(x, tz) == toInternal(fromtimestamp(epoch_seconds(x), tz), tz)

\* a timestamp column as the session's time zone shows it
LocalTime(t, tz) == fromtimestamp(t, tz)
year(t, tz) == LocalTime(t, tz).year
month(t, tz) == LocalTime(t, tz).month
dayofmonth(t, tz) == LocalTime(t, tz).day
hour(t, tz) == LocalTime(t, tz).hour
LocalDay(t, tz) == (t.sec + tz * 3600) \div 86400
\* 1 = Sunday ... 7 = Saturday (1970-01-01 was a Thursday)
dayofweek(t, tz) == ((LocalDay(t, tz) + 4) % 7) + 1
\* ISO 8601 week number: the week of the Thursday of the date's week
weekofyear(t, tz) ==
    LET day  == LocalDay(t, tz)
        thu  == day - ((day + 3) % 7) + 3
        y    == CivilFromDays(thu)[1]
    IN  (thu - DaysFromCivil(y, 1, 1)) \div 7 + 1

(***************************************************************************)
(* The tables                                                              *)
(***************************************************************************)
\* line 52
songs_table(df) ==
    dropDuplicates(select(df, [r \in DOMAIN df |->
        [song_id |-> r.song_id, title |-> r.title, artist_id |-> r.artist_id,
         year |-> r.year, duration |-> r.duration]]))

\* lines 58-64
artists_table(df) ==
    dropDuplicates(select(df, [r \in DOMAIN df |->
        [artist_id |-> r.artist_id, name |-> r.artist_name,
         location |-> r.artist_location, latitude |-> r.artist_latitude,
         longitude |-> r.artist_longitude]]))

\* a faulty variant of IsNextSong: the filter is left out
IsNextSong_any(r) == TRUE

\* line 87: df.page == 'NextSong'
IsNextSong(r) == ColEq(r.page, "NextSong")

UserRow(r) ==
    [user_id |-> r.userId, first_name |-> r.firstName, last_name |-> r.lastName,
     gender |-> r.gender, level |-> r.level]

\* a faulty variant of users_table: one row is kept per user_id
users_table_by_id(df) ==
    LET rows == {UserRow(r) : r \in DOMAIN df}
        Rep(u) == CHOOSE r \in rows : r.user_id = u
    IN  [r \in {Rep(x.user_id) : x \in rows} |-> 1]

\* lines 90-91
users_table(df) == dropDuplicates(select(df, [r \in DOMAIN df |-> UserRow(r)]))

\* lines 98-105: the columns timestamp and datetime are added
with_timestamps(df, tz) ==
    select(df, [r \in DOMAIN df |->
                 r @@ [timestamp |-> get_timestamp(r.ts, tz),
                       datetime  |-> get_datetime(r.ts, tz)]])

TimeRow(dt, tz) ==
    [datetime |-> dt, start_time |-> dt, hour |-> hour(dt, tz),
     day |-> dayofmonth(dt, tz), week |-> weekofyear(dt, tz),
     month |-> month(dt, tz), year |-> year(dt, tz), weekday |-> dayofweek(dt, tz)]

\* lines 108-116
time_table(df, tz) ==
    dropDuplicates(select(df, [r \in DOMAIN df |-> TimeRow(r.datetime, tz)]))

\* line 131: song_df.artist_name == df.artist
\* a faulty variant of JoinOn: the join has no condition
JoinOn_cross(e, t) == TRUE
JoinOn(e, t) == ColEq(t.artist_name, e.artist)

\* lines 129-132: the joined rows, made distinct
joined_distinct(df, song_df) ==
    distinct(join(df, song_df,
                  [p \in (DOMAIN df) \X (DOMAIN song_df) |-> JoinOn(p[1], p[2])]))

\* a faulty variant of monotonically_increasing_id: the partition is left out
monotonically_increasing_id_local(p, k) == <<0, k>>

\* monotonically_increasing_id(): the partition index in the upper 31 bits and
\* the position of the row in its partition in the lower 33 bits, held as the
\* pair <<partition, position>> (position < 2^33)
monotonically_increasing_id(p, k) == <<p, k>>

\* The rows of I in the order they are numbered in: some fixed order.
RECURSIVE InOrder(_)
InOrder(I) ==
    IF I = {} THEN <<>>
    ELSE LET x == CHOOSE x \in I : TRUE IN <<x>> \o InOrder(I \ {x})

\* The ways to spread the items of I over the partitions 0..NumShards-1:
\* functions from I to <<partition, position>>, the positions in a partition
\* counting from 0.  Any item may go to any partition.  Inside a partition the
\* items are numbered in one fixed order: another order renames the positions
\* of that partition among its rows, and which ids are equal and which differ
\* stays the same.
Placements(I) ==
    LET s == InOrder(I)
        Place(sh) ==
            [x \in I |->
               LET i == CHOOSE i \in 1..Len(s) : s[i] = x
               IN  <<sh[i], Cardinality({j \in 1..(i - 1) : sh[j] = sh[i]})>>]
    IN  {Place(sh) : sh \in [1..Len(s) -> 0..(NumShards - 1)]}

\* lines 133-144: the selected columns of a joined row, its songplay_id and
\* the partition columns
SongplayRow(j, id, tz) ==
    [timestamp |-> j.timestamp, userId |-> j.userId, level |-> j.level,
     sessionId |-> j.sessionId, location |-> j.location, userAgent |-> j.userAgent,
     song_id |-> j.song_id, artist_id |-> j.artist_id, songplay_id |-> id,
     month |-> month(j.timestamp, tz), year |-> year(j.timestamp, tz)]

\* lines 133-144 for all rows under the placement n: every item with the row
\* made of it
Numbered(jd, n, tz) ==
    {[src |-> i[1],
      row |-> SongplayRow(i[1], monotonically_increasing_id(n[i][1], n[i][2]), tz)]
       : i \in Items(jd)}

\* lines 129-145
songplays_table(numbered) ==
    dropDuplicates(select([x \in numbered |-> 1], [x \in numbered |-> x.row]))

(***************************************************************************)
(* Writing                                                                 *)
(***************************************************************************)
\* partitionBy of the four writes
SongsPartition(r) == <<r.year, r.artist_id>>
NoPartition(r) == <<>>
\* a faulty variant of TimePartition: partitionBy=['year', 'day']
TimePartition_day(r) == <<r.year, r.day>>
TimePartition(r) == <<r.year, r.month>>
SongplaysPartition(r) == <<r.year, r.month>>

\* the files of a table, part the partition values of every row: every row
\* under the directory of its partition values
Files(table, part) == select(table, [r \in DOMAIN table |-> [dir |-> part[r], row |-> r]])

\* a faulty variant of overwrite: mode = "append"
overwrite_append(old, new) == old (+) new

\* mode = "overwrite": what the location held is replaced
overwrite(old, new) == new

(***************************************************************************)
(* The job                                                                 *)
(***************************************************************************)
VARIABLES
    tz,         \* the time zone of the run, hours from UTC
    song_data,  \* the records of the files under song_data/A/A/*/*.json
    log_data,   \* the records of the files under log_data/*/*/*events.json
    out,        \* the five output locations
    pc,         \* the statement of main that runs next
    df,         \* the local df of process_song_data / process_log_data
    song_df,    \* the local song_df of process_log_data
    err,        \* the exception that ended the run, "none" without one
    written,    \* the locations the current run has written
    origin,     \* for the content of songplays: every row with the joined row
                \* it was made of
    run,        \* "first" for the first run, later "unchanged" for a run on
                \* the inputs of the run before it and "changed" for any other
    before      \* in an "unchanged" run: what the output locations held
                \* when the run began (no content in the other runs)

vars == <<tz, song_data, log_data, out, pc, df, song_df, err, written, origin,
          run, before>>

\* what a run is given and does not change
given == <<tz, song_data, log_data, run, before>>

Locations == {"songs", "artist", "users", "time", "songplays"}

\* main, lines 167-168, statement by statement
Steps == <<"read_song", "write_songs", "write_artists", "read_log", "write_users",
           "write_time", "read_song_df", "write_songplays", "done">>
StepAfter(p) == Steps[(CHOOSE i \in 1..Len(Steps) : Steps[i] = p) + 1]

\* the location a write statement writes
Target(p) ==
    CASE p = "write_songs" -> "songs"
      [] p = "write_artists" -> "artist"
      [] p = "write_users" -> "users"
      [] p = "write_time" -> "time"
      [] p = "write_songplays" -> "songplays"

Start(tracks, events) ==
    /\ song_data = tracks
    /\ log_data = events
    /\ pc = "read_song"
    /\ df = EmptyBag
    /\ song_df = EmptyBag
    /\ err = "none"
    /\ written = {}

Init ==
    /\ tz \in TimeZones
    /\ out = [l \in Locations |-> EmptyBag]
    /\ origin = {}
    /\ run = "first"
    /\ before = out
    /\ \E tracks \in BagsOf(TrackRecords, MaxTracks),
          events \in BagsOf(EventRecords, MaxEvents) : Start(tracks, events)

\* a faulty variant of Raise: the exception is caught and main goes on
Raise_caught(e) == pc' = StepAfter(pc) /\ err' = e

\* An exception: nothing in etl.py catches it, it ends main.
Raise(e) == pc' = "failed" /\ err' = e

\* mode = "overwrite" write of a table to the location of the current statement
Write(table, part) ==
    /\ out' = [out EXCEPT ![Target(pc)] = overwrite(@, Files(table, part))]
    /\ written' = written \cup {Target(pc)}
    /\ pc' = StepAfter(pc)

\* line 49
ReadSongData ==
    /\ pc = "read_song"
    /\ song_data # EmptyBag
    /\ df' = song_data
    /\ pc' = StepAfter(pc)
    /\ UNCHANGED <<given, out, song_df, err, written, origin>>

\* lines 52-55
WriteSongs ==
    /\ pc = "write_songs"
    /\ LET table == songs_table(df)
       IN  Write(table, [r \in DOMAIN table |-> SongsPartition(r)])
    /\ UNCHANGED <<given, df, song_df, err, origin>>

\* lines 58-68
WriteArtists ==
    /\ pc = "write_artists"
    /\ LET table == artists_table(df)
       IN  Write(table, [r \in DOMAIN table |-> NoPartition(r)])
    /\ UNCHANGED <<given, df, song_df, err, origin>>

\* lines 84-87
ReadLogData ==
    /\ pc = "read_log"
    /\ log_data # EmptyBag
    /\ df' = where(log_data, [r \in DOMAIN log_data |-> IsNextSong(r)])
    /\ pc' = StepAfter(pc)
    /\ UNCHANGED <<given, out, song_df, err, written, origin>>

\* lines 90-95
WriteUsers ==
    /\ pc = "write_users"
    /\ LET table == users_table(df)
       IN  Write(table, [r \in DOMAIN table |-> NoPartition(r)])
    /\ UNCHANGED <<given, df, song_df, err, origin>>

\* lines 98-121
WriteTime ==
    /\ pc = "write_time"
    /\ df' = with_timestamps(df, tz)
    /\ LET table == time_table(df', tz)
       IN  Write(table, [r \in DOMAIN table |-> TimePartition(r)])
    /\ UNCHANGED <<given, song_df, err, origin>>

\* line 124
ReadSongDf ==
    /\ pc = "read_song_df"
    /\ song_data # EmptyBag
    /\ song_df' = song_data
    /\ pc' = StepAfter(pc)
    /\ UNCHANGED <<given, out, df, err, written, origin>>

\* lines 129-151
WriteSongplays ==
    /\ pc = "write_songplays"
    /\ LET jd == joined_distinct(df, song_df)
       IN  \E n \in Placements(Items(jd)) :
             /\ origin' = Numbered(jd, n, tz)
             /\ LET table == songplays_table(origin')
                IN  Write(table, [r \in DOMAIN table |-> SongplaysPartition(r)])
    /\ UNCHANGED <<given, df, song_df, err>>

\* spark.read.json when no file matches the pattern
SourceNotFound ==
    /\ \/ pc \in {"read_song", "read_song_df"} /\ song_data = EmptyBag
       \/ pc = "read_log" /\ log_data = EmptyBag
    /\ Raise("SourceNotFound")
    /\ UNCHANGED <<given, out, df, song_df, written, origin>>

\* A statement that derives and writes a table fails: the destination is
\* left as it was or without its old content.
WriteFails ==
    /\ pc \in {"write_songs", "write_artists", "write_users", "write_time",
               "write_songplays"}
    /\ \E e \in {"SchemaMismatch", "WriteFailure"} : Raise(e)
    /\ \E kept \in BOOLEAN :
         /\ out' = IF kept THEN out ELSE [out EXCEPT ![Target(pc)] = EmptyBag]
         /\ origin' = IF kept \/ Target(pc) # "songplays" THEN origin ELSE {}
    /\ UNCHANGED <<given, df, song_df, written>>

\* the inputs of a run of SpecRuns
RunInputs ==
    {in \in BagsOf(TrackRecords, RunRecords) \X BagsOf(EventRecords, RunRecords) :
        BagCardinality(in[1]) + BagCardinality(in[2]) <= RunRecords}

\* main is run again after a run that succeeded, on inputs that may have
\* changed
Rerun ==
    /\ pc = "done"
    /\ \E in \in RunInputs :
         /\ song_data' = in[1]
         /\ log_data' = in[2]
         /\ run' = IF in = <<song_data, log_data>> THEN "unchanged" ELSE "changed"
    /\ before' = IF run' = "unchanged" THEN out ELSE [l \in Locations |-> EmptyBag]
    /\ pc' = "read_song"
    /\ df' = EmptyBag
    /\ song_df' = EmptyBag
    /\ written' = {}
    /\ UNCHANGED <<tz, out, err, origin>>

Next ==
    \/ ReadSongData
    \/ WriteSongs
    \/ WriteArtists
    \/ ReadLogData
    \/ WriteUsers
    \/ WriteTime
    \/ ReadSongDf
    \/ WriteSongplays
    \/ SourceNotFound
    \/ WriteFails

\* one run of main
Spec == Init /\ [][Next]_vars

InitRuns ==
    /\ tz \in TimeZones
    /\ out = [l \in Locations |-> EmptyBag]
    /\ origin = {}
    /\ run = "first"
    /\ before = out
    /\ \E in \in RunInputs : Start(in[1], in[2])

NextRuns == Next \/ Rerun

\* any number of runs of main, one after the other
SpecRuns == InitRuns /\ [][NextRuns]_vars

(***************************************************************************)
(* What the claims speak of                                                *)
(***************************************************************************)
\* the rows a location holds
RowsOf(l) == {x.row : x \in DOMAIN out[l]}
\* the number of rows a location holds
CountOf(l) == BagCardinality(out[l])

\* the session-event record and the track record a joined row was made of
EventOf(j) == [c \in DOMAIN E1 |-> j[c]]
TrackOf(j) == [c \in DOMAIN T1 |-> j[c]]

\* the session-event records and track records of the input
Events == DOMAIN log_data
Tracks == DOMAIN song_data
PlayEvents == {e \in Events : e.page = "NextSong"}
\* the track records with the artist name of e
TracksNamed(e) == {t \in Tracks : e.artist # NULL /\ t.artist_name = e.artist}

\* the instant ts / 1000 seconds after the epoch
InstantOf(ts) == [sec |-> ts[1] * 1000 + ts[2] \div 1000, usec |-> (ts[2] % 1000) * 1000]

\* a songplays row without its songplay_id
WithoutId(r) == [c \in (DOMAIN r) \ {"songplay_id"} |-> r[c]]

\* C1: every songplays row is made of a session-event record and a track
\* record of the input with track.artist_name equal to event.artist, and it
\* carries that track's song_id and artist_id; a session-event record whose
\* artist is the artist_name of no track record makes no row.
C1_JoinCorrect ==
    "songplays" \in written =>
      /\ RowsOf("songplays") = {x.row : x \in origin}
      /\ \A x \in origin :
           LET e == EventOf(x.src)
               t == TrackOf(x.src)
           IN  /\ e \in Events /\ t \in Tracks
               /\ e.artist # NULL /\ t.artist_name = e.artist
               /\ x.row.song_id = t.song_id /\ x.row.artist_id = t.artist_id
               /\ x.row.userId = e.userId /\ x.row.sessionId = e.sessionId
               /\ x.row.timestamp = InstantOf(e.ts)
      /\ \A e \in Events :
           TracksNamed(e) = {} => ~ \E x \in origin : EventOf(x.src) = e

\* a run has joined an input in which one event has a track of its artist and
\* another has none
C1_Witness ==
    /\ pc = "done"
    /\ origin # {}
    /\ \E e \in PlayEvents : TracksNamed(e) = {}
    /\ \E t \in Tracks : ~ \E x \in origin : TrackOf(x.src) = t

\* C2: every row of users, time and songplays is derived from a session-event
\* record with page "NextSong"; a record with another page, or none, is the
\* source of no songplays row.
C2_FilterCorrect ==
    /\ "users" \in written =>
         \A r \in RowsOf("users") : \E e \in PlayEvents :
            r = [user_id |-> e.userId, first_name |-> e.firstName,
                 last_name |-> e.lastName, gender |-> e.gender, level |-> e.level]
    /\ "time" \in written =>
         \A r \in RowsOf("time") : \E e \in PlayEvents : r.start_time = InstantOf(e.ts)
    /\ "songplays" \in written =>
         /\ \A x \in origin : EventOf(x.src) \in PlayEvents
         /\ \A r \in RowsOf("songplays") : \E e \in PlayEvents :
              /\ r.timestamp = InstantOf(e.ts)
              /\ r.userId = e.userId /\ r.sessionId = e.sessionId

\* a run is over whose input had a NextSong record, a record of another page
\* and a record without a page, all three with the artist of a track
C2_Witness ==
    /\ pc = "done"
    /\ RowsOf("users") # {} /\ RowsOf("time") # {} /\ RowsOf("songplays") # {}
    /\ \E e \in Events : e.page = "Home" /\ TracksNamed(e) # {}
    /\ \E e \in Events : e.page = NULL /\ TracksNamed(e) # {}

\* C3: no written table has two rows that are equal on all columns.
C3_NoDuplicateRows ==
    \A l \in written : \A x \in DOMAIN out[l] : out[l][x] = 1

\* a run is over whose input had the same track record twice and the same
\* NextSong record twice, the two matching
C3_Witness ==
    /\ pc = "done"
    /\ \E t \in Tracks : song_data[t] >= 2
    /\ \E e \in PlayEvents : log_data[e] >= 2 /\ TracksNamed(e) # {}

\* C4: a time row and a songplays row lie in the directory of the calendar
\* year and month of their own timestamp (start_time, timestamp), a songs row
\* in the directory of its own year and artist_id.
C4_PartitionCorrect ==
    /\ "time" \in written =>
         \A x \in DOMAIN out.time :
            x.dir = <<year(x.row.start_time, tz), month(x.row.start_time, tz)>>
    /\ "songplays" \in written =>
         \A x \in DOMAIN out.songplays :
            x.dir = <<year(x.row.timestamp, tz), month(x.row.timestamp, tz)>>
    /\ "songs" \in written =>
         \A x \in DOMAIN out.songs : x.dir = <<x.row.year, x.row.artist_id>>

\* a run is over that wrote songs of two artists, a songplays row, and time
\* rows of two months
C4_Witness ==
    /\ pc = "done"
    /\ out.songplays # EmptyBag
    /\ \E x, y \in DOMAIN out.songs : x.dir[2] # y.dir[2]
    /\ \E x, y \in DOMAIN out.time : x.row.month # y.row.month

\* the rows of the five tables as the input of the current run determines
\* them, the songplays rows without songplay_id
SongsRows ==
    {[song_id |-> t.song_id, title |-> t.title, artist_id |-> t.artist_id,
      year |-> t.year, duration |-> t.duration] : t \in Tracks}
ArtistRows ==
    {[artist_id |-> t.artist_id, name |-> t.artist_name,
      location |-> t.artist_location, latitude |-> t.artist_latitude,
      longitude |-> t.artist_longitude] : t \in Tracks}
UsersRows ==
    {[user_id |-> e.userId, first_name |-> e.firstName, last_name |-> e.lastName,
      gender |-> e.gender, level |-> e.level] : e \in PlayEvents}
StartTimes == {InstantOf(e.ts) : e \in PlayEvents}
\* the pairs of a NextSong record and a track record with its artist's name
Pairs == {p \in PlayEvents \X Tracks : p[2] \in TracksNamed(p[1])}
PlayOf(p) ==
    [timestamp |-> InstantOf(p[1].ts), userId |-> p[1].userId, level |-> p[1].level,
     sessionId |-> p[1].sessionId, location |-> p[1].location,
     userAgent |-> p[1].userAgent, song_id |-> p[2].song_id,
     artist_id |-> p[2].artist_id,
     month |-> month(InstantOf(p[1].ts), tz), year |-> year(InstantOf(p[1].ts), tz)]

\* the rows of a table, each as often as the table has it
Content(files) == BagOfAll(LAMBDA x : x.row, files)
\* the same for songplays, without songplay_id
Plays(files) == BagOfAll(LAMBDA x : WithoutId(x.row), files)

\* C5: when a run is over, every location holds the rows made of the inputs
\* of that run and nothing else, whatever it held before; a run on the inputs
\* of the run before it leaves every table with the rows it had (songplays
\* compared without songplay_id).
C5_FullOverwrite ==
    pc = "done" =>
      /\ Content(out.songs) = SetToBag(SongsRows)
      /\ Content(out.artist) = SetToBag(ArtistRows)
      /\ Content(out.users) = SetToBag(UsersRows)
      /\ {r.start_time : r \in RowsOf("time")} = StartTimes
      /\ CountOf("time") = Cardinality(StartTimes)
      /\ Plays(out.songplays) = BagOfAll(PlayOf, SetToBag(Pairs))
      /\ run = "unchanged" =>
           /\ \A l \in Locations \ {"songplays"} : out[l] = before[l]
           /\ Plays(out.songplays) = Plays(before.songplays)

\* a later run is over, on the inputs of the run before it and with a
\* songplays row
C5_Witness ==
    /\ pc = "done"
    /\ run = "unchanged"
    /\ out.songplays # EmptyBag

\* C6: songplays is written only in a run that has written songs, artist,
\* users and time; an exception ends the run; after a failure of any earlier
\* statement songplays is not written and holds what it held.
C6_JoinBarrier ==
    /\ [](/\ "songplays" \in written => {"songs", "artist", "users", "time"} \subseteq written
          /\ err # "none" => pc = "failed"
          /\ pc = "done" => written = Locations)
    /\ [][out'.songplays # out.songplays =>
            /\ pc = "write_songplays"
            /\ {"songs", "artist", "users", "time"} \subseteq written
            /\ err = "none"]_vars

\* a later run has failed before its join, with songplays rows of the run
\* before it in place
C6_Witness ==
    /\ pc = "failed"
    /\ run # "first"
    /\ written # {} /\ "songplays" \notin written
    /\ out.songplays # EmptyBag

\* C7: every NextSong record has its row in users and its timestamp in time,
\* whether or not a track record has its artist's name; with none, it makes
\* no songplays row.
C7_DimensionsIgnoreJoin ==
    /\ "users" \in written =>
         \A e \in PlayEvents :
            [user_id |-> e.userId, first_name |-> e.firstName,
             last_name |-> e.lastName, gender |-> e.gender, level |-> e.level]
              \in RowsOf("users")
    /\ "time" \in written =>
         \A e \in PlayEvents : \E r \in RowsOf("time") :
            /\ r.start_time = InstantOf(e.ts)
            /\ r.year = year(r.start_time, tz) /\ r.month = month(r.start_time, tz)
    /\ "songplays" \in written =>
         \A e \in PlayEvents :
            TracksNamed(e) = {} => ~ \E x \in origin : EventOf(x.src) = e

\* a run is over with a songplays row and with a NextSong record of the same
\* user whose artist no track record names
C7_Witness ==
    /\ pc = "done"
    /\ origin # {}
    /\ \E e \in PlayEvents :
         /\ TracksNamed(e) = {}
         /\ \E x \in origin : x.row.userId = e.userId /\ x.row.level # e.level

\* the time rows made of the record with ts = 1541548800000
ScenarioRows == {r \in RowsOf("time") : r.start_time = InstantOf(Ts1)}
\* a timestamp as the UTC interpretation shows it
Utc(t) == fromtimestamp(t, 0)
Clock(y, mo, d, h, mi, sec) ==
    [year |-> y, month |-> mo, day |-> d, hour |-> h, minute |-> mi,
     second |-> sec, microsecond |-> 0]
\* the input has a NextSong record with ts = 1541548800000, time is written,
\* the job runs in UTC
ScenarioDone ==
    /\ tz = 0
    /\ "time" \in written
    /\ \E e \in PlayEvents : e.ts = Ts1

\* C8 as stated: the row of ts = 1541548800000 has start_time
\* 2018-11-06 20:00:00 under the UTC interpretation, year 2018 and month 11.
C8_AsStated ==
    ScenarioDone =>
      /\ Cardinality(ScenarioRows) = 1
      /\ \A r \in ScenarioRows :
           /\ r.start_time = [sec |-> 1541548800, usec |-> 0]
           /\ Utc(r.start_time) = Clock(2018, 11, 6, 20, 0, 0)
           /\ r.year = 2018 /\ r.month = 11

\* C8, amended: ts = 1541548800000 is divided by 1000 and read as seconds
\* since the epoch; time gets one row for it, whose start_time is
\* 2018-11-07 00:00:00 under the UTC interpretation, with year 2018 and
\* month 11.
C8_Timestamp ==
    ScenarioDone =>
      /\ Cardinality(ScenarioRows) = 1
      /\ \A r \in ScenarioRows :
           /\ r.start_time = [sec |-> 1541548800, usec |-> 0]
           /\ Utc(r.start_time) = Clock(2018, 11, 7, 0, 0, 0)
           /\ r.year = 2018 /\ r.month = 11

\* the run of the scenario is over: one track record, one NextSong record
\* with ts = 1541548800000, UTC
C8_Witness ==
    /\ pc = "done"
    /\ tz = 0
    /\ song_data = SetToBag({T1}) /\ log_data = SetToBag({E1})
    /\ CountOf("time") = 1 /\ CountOf("songplays") = 1

\* C9: no two songplays rows of a run have the same songplay_id, however
\* the rows are spread over the partitions that number them.
C9_UniqueIds ==
    "songplays" \in written =>
      /\ \A x, y \in origin : x.row.songplay_id = y.row.songplay_id => x = y
      /\ \A r, q \in RowsOf("songplays") : r.songplay_id = q.songplay_id => r = q
      /\ CountOf("songplays") = Cardinality({r.songplay_id : r \in RowsOf("songplays")})

\* songplays is written with two rows that are first in different partitions
\* and two rows of the same partition
C9_Witness ==
    /\ pc = "done"
    /\ \E r, q \in RowsOf("songplays") :
         r.songplay_id[1] # q.songplay_id[1] /\ r.songplay_id[2] = q.songplay_id[2]
    /\ \E r, q \in RowsOf("songplays") :
         r.songplay_id[1] = q.songplay_id[1] /\ r.songplay_id[2] # q.songplay_id[2]

\* C10: songplays has one row for every pair of a distinct NextSong record
\* and a distinct track record with its artist's name, also for pairs that
\* are equal on the selected columns; the last dropDuplicates drops none.
C10_Grain ==
    "songplays" \in written =>
      /\ CountOf("songplays") = Cardinality(Pairs)
      /\ Cardinality(origin) = Cardinality(Pairs)
      /\ \A p \in Pairs :
           \E x \in origin : EventOf(x.src) = p[1] /\ TrackOf(x.src) = p[2]
      /\ RowsOf("songplays") = {x.row : x \in origin}

\* songplays is written from two pairs that are equal on the selected
\* columns: there are two rows that differ in songplay_id only
C10_Witness ==
    /\ pc = "done"
    /\ \E r, q \in RowsOf("songplays") : r # q /\ WithoutId(r) = WithoutId(q)
====
